---- MODULE Spec2Model ----
(***************************************************************************)
(* Model of github.com/ukautz/mappath: read-only path navigation into      *)
(* nested maps and slices with type coercion (src/mappath.go).             *)
(*                                                                         *)
(* Go strings are modelled as sequences of one-character strings, so that  *)
(* strings.Split, strconv.Atoi and strconv.ParseFloat are modelled by what *)
(* they do to the characters.  Go values (interface{}) are tagged records. *)
(* A float64 is a fixed-point number: FloatV(n) stands for n / Scale.      *)
(***************************************************************************)
EXTENDS Integers, Sequences, FiniteSets, TLC

VARIABLES root, path, result, initial, calls, disk

vars == <<root, path, result, initial, calls, disk>>

(* ------------------------------ bounds -------------------------------- *)

\* longest path, in segments
MaxDepth == 3
\* longest numeric-looking string stored in a Document
MaxNumLen == 3
\* most calls made on one handle
MaxCalls == 2
\* longest generated JSON text, in characters
MaxJsonLen == 3
\* fractional decimal digits a modelled float64 keeps
FracDigits == 2

Scale == 10 ^ FracDigits

(* ------------------------------ values -------------------------------- *)

NilV == [kind |-> "nil"]
BoolV(b) == [kind |-> "bool", val |-> b]
IntV(n) == [kind |-> "int", val |-> n]
FloatV(n) == [kind |-> "float64", val |-> n]
StrV(s) == [kind |-> "string", val |-> s]
\* map[string]interface{}: a function from strings to values
MapV(f) == [kind |-> "map", keys |-> "string", val |-> f]
\* map[interface{}]interface{}: a sequence of <<key, value>> pairs, in the
\* order a range over the map visits them
IMapV(pairs) == [kind |-> "map", keys |-> "interface", val |-> pairs]
\* a slice; elem is the kind of the static element type ("interface" for
\* []interface{}, "int" for []int, ...)
SliceV(elem, items) == [kind |-> "slice", elem |-> elem, val |-> items]
\* *MapPath{root: m}
HandleV(m) == [kind |-> "handle", val |-> m]

\* reflect.TypeOf(v).Kind()
Kind(v) == v.kind

(* ------------------------------ strings ------------------------------- *)

Digits == {"0", "1", "2", "3", "4", "5", "6", "7", "8", "9"}

DigitVal(c) ==
  CASE c = "0" -> 0 [] c = "1" -> 1 [] c = "2" -> 2 [] c = "3" -> 3
    [] c = "4" -> 4 [] c = "5" -> 5 [] c = "6" -> 6 [] c = "7" -> 7
    [] c = "8" -> 8 [] c = "9" -> 9

Tail2(s) == SubSeq(s, 2, Len(s))

RECURSIVE DigitsVal(_, _)
\* the loop n = n*10 + int(ch) over a string of digits
DigitsVal(s, n) ==
  IF s = <<>> THEN n ELSE DigitsVal(Tail2(s), n * 10 + DigitVal(s[1]))

AllDigits(s) == \A i \in 1..Len(s) : s[i] \in Digits

\* strconv.Atoi: optional sign, then at least one digit, nothing else
Atoi(s) ==
  LET signed == Len(s) > 0 /\ s[1] \in {"-", "+"}
      body == IF signed THEN Tail2(s) ELSE s
  IN IF Len(body) < 1 \/ ~AllDigits(body)
       THEN [ok |-> FALSE, val |-> 0]
       ELSE [ok |-> TRUE,
             val |-> IF signed /\ s[1] = "-" THEN -DigitsVal(body, 0)
                                             ELSE DigitsVal(body, 0)]

RECURSIVE IndexOf(_, _, _)
\* the first position >= i of character c in s, 0 when there is none
IndexOf(s, c, i) ==
  IF i > Len(s) THEN 0
  ELSE IF s[i] = c THEN i ELSE IndexOf(s, c, i + 1)

RECURSIVE Split(_)
\* strings.Split(s, "/")
Split(s) ==
  LET i == IndexOf(s, "/", 1)
  IN IF i = 0 THEN <<s>>
     ELSE <<SubSeq(s, 1, i - 1)>> \o Split(SubSeq(s, i + 1, Len(s)))

\* the decimal digits of a natural number
RECURSIVE NatToStr(_)
NatToStr(n) ==
  LET d == <<"0", "1", "2", "3", "4", "5", "6", "7", "8", "9">>[(n % 10) + 1]
  IN IF n < 10 THEN <<d>> ELSE NatToStr(n \div 10) \o <<d>>

\* fmt.Sprintf("%d", n)
Itoa(n) == IF n < 0 THEN <<"-">> \o NatToStr(-n) ELSE NatToStr(n)

RECURSIVE Zeros(_)
Zeros(n) == IF n <= 0 THEN <<>> ELSE <<"0">> \o Zeros(n - 1)

\* strconv.ParseFloat(s, 64) on decimal notation: optional sign, digits
\* with at most one point and at least one digit.  The value keeps the
\* first FracDigits fractional digits.
ParseFloat(s) ==
  LET signed == Len(s) > 0 /\ s[1] \in {"-", "+"}
      body == IF signed THEN Tail2(s) ELSE s
      dot == IndexOf(body, ".", 1)
      ipart == IF dot = 0 THEN body ELSE SubSeq(body, 1, dot - 1)
      fpart == IF dot = 0 THEN <<>> ELSE SubSeq(body, dot + 1, Len(body))
      mag == DigitsVal(ipart, 0) * Scale
               + DigitsVal(SubSeq(fpart \o Zeros(FracDigits), 1, FracDigits), 0)
  IN IF Len(ipart) + Len(fpart) < 1 \/ ~AllDigits(ipart) \/ ~AllDigits(fpart)
       THEN [ok |-> FALSE, val |-> 0]
       ELSE [ok |-> TRUE,
             val |-> IF signed /\ s[1] = "-" THEN -mag ELSE mag]

\* a conversion that rounds down instead of toward zero
FloatToIntFloor(f) == f \div Scale

\* the conversion int(f) of a float64: truncation toward zero
FloatToInt(f) == IF f >= 0 THEN f \div Scale ELSE -((-f) \div Scale)

\* the conversion float64(n) of an int
IntToFloat(n) == n * Scale

(* ------------------------------ errors -------------------------------- *)

NoErr == [type |-> "nil"]
NotFoundError(p) == [type |-> "NotFoundError", path |-> p]
InvalidTypeError(source, expected) ==
  [type |-> "InvalidTypeError", source |-> source, expected |-> expected]
\* the *strconv.NumError of a failed strconv call
NumError(fn, s) == [type |-> "NumError", func |-> fn, num |-> s]
\* the error fmt.Errorf builds in GetBool
BoolStringError(s) == [type |-> "errorString", str |-> s]

(* ----------------------------- resolver ------------------------------- *)

\* what getBranch, getArray and getNext return; panic marks a run-time
\* fault instead of a return
Found(v) == [val |-> v, found |-> TRUE, panic |-> FALSE]
NotFound == [val |-> NilV, found |-> FALSE, panic |-> FALSE]
Fault == [val |-> NilV, found |-> FALSE, panic |-> TRUE]

\* fmt.Sprintf("%s", k) of a map key
SprintfS(k) ==
  IF k.kind = "string" THEN k.val
  ELSE <<"%", "!", "s", "(">> \o
       (CASE k.kind = "int" -> <<"i", "n", "t", "=">> \o Itoa(k.val)
          [] k.kind = "bool" ->
               <<"b", "o", "o", "l", "=">> \o
               (IF k.val THEN <<"t", "r", "u", "e">>
                         ELSE <<"f", "a", "l", "s", "e">>)
          [] OTHER -> <<"?">>) \o <<")">>

RECURSIVE StringKeyed(_, _)
\* the loop m[fmt.Sprintf("%s", k)] = v over the pairs of a
\* map[interface{}]interface{}, starting from the map m
StringKeyed(pairs, m) ==
  IF pairs = <<>> THEN m
  ELSE LET k == SprintfS(pairs[1][1])
       IN StringKeyed(Tail2(pairs),
            [x \in DOMAIN m \cup {k} |-> IF x = k THEN pairs[1][2] ELSE m[x]])

RECURSIVE getBranch(_, _)
RECURSIVE getArray(_, _)
RECURSIVE getNext(_, _)

\* getArray with a one-based index
getArrayOneBased(pathParts, current) ==
  LET idx == Atoi(pathParts[1])
  IN IF ~idx.ok \/ idx.val < 1 \/ idx.val > Len(current) THEN NotFound
     ELSE getNext(pathParts, current[idx.val])

\* getNext that hands back the scalar it cannot descend into
getNextPartial(pathParts, val) ==
  IF Len(pathParts) > 1
    THEN CASE Kind(val) = "map" -> getBranch(Tail2(pathParts), val.val)
           [] Kind(val) = "slice" -> getArray(Tail2(pathParts), val.val)
           [] OTHER -> Found(val)
    ELSE Found(val)

\* getBranch that skips a name the map does not have when more follow
getBranchSkipsUnknown(pathParts, current) ==
  LET name == pathParts[1]
  IN IF name \notin DOMAIN current
       THEN IF Len(pathParts) > 1
              THEN getBranch(Tail2(pathParts), current)
              ELSE NotFound
     ELSE getNext(pathParts, current[name])

\* getBranch for which the empty name is never a key
getBranchNoEmptyName(pathParts, current) ==
  LET name == pathParts[1]
  IN IF name = <<>> \/ name \notin DOMAIN current THEN NotFound
     ELSE getNext(pathParts, current[name])

getBranch(pathParts, current) ==
  LET name == pathParts[1]
  IN IF name \notin DOMAIN current THEN NotFound
     ELSE getNext(pathParts, current[name])

getArray(pathParts, current) ==
  LET idx == Atoi(pathParts[1])
  IN IF ~idx.ok \/ idx.val < 0 \/ idx.val >= Len(current) THEN NotFound
     ELSE getNext(pathParts, current[idx.val + 1])

getNext(pathParts, val) ==
  IF Len(pathParts) > 1
    THEN IF val.kind = "nil" THEN Fault
         ELSE CASE Kind(val) = "map" ->
                     getBranch(Tail2(pathParts),
                               IF val.keys = "string" THEN val.val
                               ELSE StringKeyed(val.val, <<>>))
                [] Kind(val) = "slice" -> getArray(Tail2(pathParts), val.val)
                [] OTHER -> NotFound
    ELSE Found(val)

(* ----------------------------- accessors ------------------------------ *)

\* what an accessor hands back: a value and an error, or a run-time fault
Ret(v, e) == [val |-> v, err |-> e, panic |-> FALSE]
Panic == [val |-> NilV, err |-> NoErr, panic |-> TRUE]

\* GetResult whose NotFoundError names the first segment only
GetResultFirstSegment(r, p, fallback) ==
  IF r.panic THEN Panic
  ELSE IF r.found THEN Ret(r.val, NoErr)
  ELSE IF Len(fallback) > 0 THEN Ret(fallback[1], NoErr)
  ELSE Ret(NilV, NotFoundError(Split(p)[1]))

\* the part of Get after its call of getBranch, which returned r
GetResult(r, p, fallback) ==
  IF r.panic THEN Panic
  ELSE IF r.found THEN Ret(r.val, NoErr)
  ELSE IF Len(fallback) > 0 THEN Ret(fallback[1], NoErr)
  ELSE Ret(NilV, NotFoundError(p))

\* this.Get(path, fallback...); fallback is the variadic tail
Get(this, p, fallback) ==
  GetResult(getBranch(Split(p), this.val), p, fallback)

\* Has that looks at the first segment only
HasFirstSegment(this, p) ==
  Ret(BoolV(Split(p)[1] \in DOMAIN this.val), NoErr)

\* the part of Has after its call of getBranch, which returned r
HasResult(r) == IF r.panic THEN Panic ELSE Ret(BoolV(r.found), NoErr)

\* this.Has(path)
Has(this, p) == HasResult(getBranch(Split(p), this.val))

\* a typed accessor that forgets to hand its fallback on to Get
FirstDropped(fallback) == <<>>

\* the variadic tail handed on to Get: fallback[0] when there is one
First(fallback) == IF Len(fallback) > 0 THEN <<fallback[1]>> ELSE <<>>

\* the switch of GetBool taking "1" and "0" too
BoolOfStringLoose(s) ==
  CASE s \in {<<"t", "r", "u", "e">>, <<"y", "e", "s">>, <<"1">>} ->
         Ret(BoolV(TRUE), NoErr)
    [] s \in {<<"f", "a", "l", "s", "e">>, <<"n", "o">>, <<"0">>} ->
         Ret(BoolV(FALSE), NoErr)
    [] OTHER -> Ret(BoolV(FALSE), BoolStringError(s))

\* the switch on the string value in GetBool
BoolOfString(s) ==
  CASE s = <<"t", "r", "u", "e">> -> Ret(BoolV(TRUE), NoErr)
    [] s = <<"y", "e", "s">> -> Ret(BoolV(TRUE), NoErr)
    [] s = <<"f", "a", "l", "s", "e">> -> Ret(BoolV(FALSE), NoErr)
    [] s = <<"n", "o">> -> Ret(BoolV(FALSE), NoErr)
    [] OTHER -> Ret(BoolV(FALSE), BoolStringError(s))

\* the part of GetBool after its call of Get, which returned g
BoolOf(g) ==
  LET val == g.val
  IN IF g.panic THEN Panic
     ELSE IF g.err # NoErr THEN Ret(BoolV(FALSE), g.err)
     ELSE IF val.kind = "nil" THEN Panic
     ELSE CASE Kind(val) = "bool" -> Ret(val, NoErr)
            [] Kind(val) = "int" -> Ret(BoolV(val.val # 0), NoErr)
            [] Kind(val) = "float64" -> Ret(BoolV(val.val # 0), NoErr)
            [] Kind(val) = "string" -> BoolOfString(val.val)
            [] OTHER -> Ret(BoolV(FALSE), InvalidTypeError(val, "bool"))

\* this.GetBool(path, fallback...)
GetBool(this, p, fallback) == BoolOf(Get(this, p, First(fallback)))

\* the case reflect.String of GetInt
IntOfString(s) ==
  LET r == Atoi(s)
      f == ParseFloat(s)
  IN IF ~r.ok
       THEN IF f.ok THEN Ret(IntV(FloatToInt(f.val)), NoErr)
            ELSE Ret(IntV(0), NumError("Atoi", s))
       ELSE Ret(IntV(r.val), NoErr)

\* GetInt without the case reflect.Bool
IntOfNoBool(g) ==
  LET val == g.val
  IN IF g.panic THEN Panic
     ELSE IF g.err # NoErr THEN Ret(IntV(0), g.err)
     ELSE CASE Kind(val) = "int" -> Ret(val, NoErr)
            [] Kind(val) = "float64" -> Ret(IntV(FloatToInt(val.val)), NoErr)
            [] OTHER -> Ret(IntV(0), InvalidTypeError(val, "int"))

\* the part of GetInt after its call of Get, which returned g
IntOf(g) ==
  LET val == g.val
  IN IF g.panic THEN Panic
     ELSE IF g.err # NoErr THEN Ret(IntV(0), g.err)
     ELSE IF val.kind = "nil" THEN Panic
     ELSE CASE Kind(val) = "bool" -> Ret(IntV(IF val.val THEN 1 ELSE 0), NoErr)
            [] Kind(val) = "string" -> IntOfString(val.val)
            [] Kind(val) = "int" -> Ret(val, NoErr)
            [] Kind(val) = "float64" -> Ret(IntV(FloatToInt(val.val)), NoErr)
            [] OTHER -> Ret(IntV(0), InvalidTypeError(val, "int"))

\* this.GetInt(path, fallback...)
GetInt(this, p, fallback) == IntOf(Get(this, p, First(fallback)))

\* the case reflect.String of GetFloat
FloatOfString(s) ==
  LET r == ParseFloat(s)
  IN IF ~r.ok THEN Ret(FloatV(0), NumError("ParseFloat", s))
     ELSE Ret(FloatV(r.val), NoErr)

\* the part of GetFloat after its call of Get, which returned g
FloatOf(g) ==
  LET val == g.val
  IN IF g.panic THEN Panic
     ELSE IF g.err # NoErr THEN Ret(FloatV(0), g.err)
     ELSE IF val.kind = "nil" THEN Panic
     ELSE CASE Kind(val) = "bool" ->
                 Ret(FloatV(IF val.val THEN IntToFloat(1) ELSE 0), NoErr)
            [] Kind(val) = "string" -> FloatOfString(val.val)
            [] Kind(val) = "float64" -> Ret(val, NoErr)
            [] Kind(val) = "int" -> Ret(FloatV(IntToFloat(val.val)), NoErr)
            [] OTHER -> Ret(FloatV(0), InvalidTypeError(val, "float64"))

\* this.GetFloat(path, fallback...)
GetFloat(this, p, fallback) == FloatOf(Get(this, p, First(fallback)))

\* the verb %f without a precision: six fractional digits
Sprintf6f(f) ==
  LET mag == IF f < 0 THEN -f ELSE f
      frac == NatToStr(mag % Scale)
  IN (IF f < 0 THEN <<"-">> ELSE <<>>) \o NatToStr(mag \div Scale) \o <<".">>
       \o Zeros(FracDigits - Len(frac)) \o frac \o Zeros(6 - FracDigits)

\* fmt.Sprintf("%.9f", f): fixed point with nine fractional digits
Sprintf9f(f) ==
  LET mag == IF f < 0 THEN -f ELSE f
      frac == NatToStr(mag % Scale)
  IN (IF f < 0 THEN <<"-">> ELSE <<>>) \o NatToStr(mag \div Scale) \o <<".">>
       \o Zeros(FracDigits - Len(frac)) \o frac \o Zeros(9 - FracDigits)

\* the part of GetString after its call of Get, which returned g
StringOf(g) ==
  LET val == g.val
  IN IF g.panic THEN Panic
     ELSE IF g.err # NoErr THEN Ret(StrV(<<>>), g.err)
     ELSE IF val.kind = "nil" THEN Panic
     ELSE CASE Kind(val) = "bool" ->
                 Ret(StrV(IF val.val THEN <<"t", "r", "u", "e">>
                                     ELSE <<"f", "a", "l", "s", "e">>), NoErr)
            [] Kind(val) = "string" -> Ret(val, NoErr)
            [] Kind(val) = "float64" -> Ret(StrV(Sprintf9f(val.val)), NoErr)
            [] Kind(val) = "int" -> Ret(StrV(Itoa(val.val)), NoErr)
            [] OTHER -> Ret(StrV(<<>>), InvalidTypeError(val, "float64"))

\* this.GetString(path, fallback...)
GetString(this, p, fallback) == StringOf(Get(this, p, First(fallback)))

RECURSIVE AssertStringKeyed(_, _)
\* the loop m[k.(string)] = v of GetMap: the map, or a fault at the first
\* key that is not a string
AssertStringKeyed(pairs, m) ==
  IF pairs = <<>> THEN Ret(MapV(m), NoErr)
  ELSE LET k == pairs[1][1]
       IN IF k.kind # "string" THEN Panic
          ELSE AssertStringKeyed(Tail2(pairs),
                 [x \in DOMAIN m \cup {k.val} |->
                    IF x = k.val THEN pairs[1][2] ELSE m[x]])

\* GetMap that reports a slice as an unsupported type
MapOfSliceUnsupported(g) ==
  LET val == g.val
  IN IF g.panic THEN Panic
     ELSE IF g.err # NoErr THEN Ret(NilV, g.err)
     ELSE IF val.kind = "map" /\ val.keys = "string" THEN Ret(val, NoErr)
     ELSE IF val.kind = "map" THEN AssertStringKeyed(val.val, <<>>)
     ELSE IF val.kind = "slice"
       THEN Ret(NilV, [type |-> "UnsupportedTypeError", kind |-> "slice"])
     ELSE Ret(NilV, InvalidTypeError(val, "map"))

\* the part of GetMap after its call of Get, which returned g
MapOf(g) ==
  LET val == g.val
  IN IF g.panic THEN Panic
     ELSE IF g.err # NoErr THEN Ret(NilV, g.err)
     ELSE IF val.kind = "map" /\ val.keys = "string" THEN Ret(val, NoErr)
     ELSE IF val.kind = "map" THEN AssertStringKeyed(val.val, <<>>)
     ELSE Ret(NilV, InvalidTypeError(val, "map"))

\* this.GetMap(path, fallback...)
GetMap(this, p, fallback) == MapOf(Get(this, p, First(fallback)))

\* NewMapPath(root)
NewMapPath(m) == HandleV(m.val)

\* GetSub that returns its fallback next to an error it does not cover
SubOfFallbackWithError(g, fallback) ==
  IF g.panic THEN Panic
  ELSE IF g.err # NoErr
    THEN IF g.err.type = "NotFoundError" /\ Len(fallback) > 0
           THEN Ret(fallback[1], NoErr)
           ELSE Ret(IF Len(fallback) > 0 THEN fallback[1] ELSE NilV, g.err)
  ELSE Ret(NewMapPath(g.val), NoErr)

\* GetSub that returns its fallback on every error
SubOfAnyError(g, fallback) ==
  IF g.panic THEN Panic
  ELSE IF g.err # NoErr
    THEN IF Len(fallback) > 0 THEN Ret(fallback[1], NoErr)
         ELSE Ret(NilV, g.err)
  ELSE Ret(NewMapPath(g.val), NoErr)

\* this.GetSub(path, fallback...)
SubOf(g, fallback) ==
  IF g.panic THEN Panic
  ELSE IF g.err # NoErr
    THEN IF g.err.type = "NotFoundError" /\ Len(fallback) > 0
           THEN Ret(fallback[1], NoErr)
           ELSE Ret(NilV, g.err)
  ELSE Ret(NewMapPath(g.val), NoErr)

\* GetSub whose handle is the handle it was called on
GetSubOfRoot(this, p, fallback) ==
  LET r == SubOf(GetMap(this, p, <<>>), fallback)
  IN IF ~r.panic /\ r.err = NoErr /\ Len(fallback) = 0
       THEN Ret(this, NoErr) ELSE r

GetSub(this, p, fallback) == SubOf(GetMap(this, p, <<>>), fallback)

\* a value-only accessor that forgets the fallback
ValueOnlyZero(r, fallback, zero) ==
  IF r.panic THEN Panic
  ELSE IF r.err # NoErr THEN Ret(zero, NoErr)
  ELSE Ret(r.val, NoErr)

\* the shape shared by GetBoolV, GetIntV, GetFloatV, GetStringV, GetMapV,
\* GetSubV and the list variants: r is what the erroring accessor returned
ValueOnly(r, fallback, zero) ==
  IF r.panic THEN Panic
  ELSE IF r.err # NoErr
    THEN IF Len(fallback) > 0 THEN Ret(fallback[1], NoErr) ELSE Ret(zero, NoErr)
  ELSE Ret(r.val, NoErr)

GetBoolV(this, p, fallback) ==
  ValueOnly(GetBool(this, p, fallback), fallback, BoolV(FALSE))
GetIntV(this, p, fallback) ==
  ValueOnly(GetInt(this, p, fallback), fallback, IntV(0))
GetFloatV(this, p, fallback) ==
  ValueOnly(GetFloat(this, p, fallback), fallback, FloatV(0))
GetStringV(this, p, fallback) ==
  ValueOnly(GetString(this, p, fallback), fallback, StrV(<<>>))
GetMapV(this, p, fallback) ==
  ValueOnly(GetMap(this, p, fallback), fallback, NilV)
GetSubV(this, p, fallback) ==
  ValueOnly(GetSub(this, p, fallback), fallback, NilV)

(* --------------------------- list accessors --------------------------- *)

UnsupportedTypeError(t) == [type |-> "UnsupportedTypeError", kind |-> t]
\* the InvalidTypeError of element i: expected is "[i]array<t>"
ElementTypeError(source, i, t) ==
  [type |-> "InvalidTypeError", source |-> source, expected |-> "array",
   index |-> i, of |-> t]

\* what GetArray returns: (result, found, error), or a run-time fault
Ret3(v, found, e) == [val |-> v, found |-> found, err |-> e, panic |-> FALSE]
Panic3 == [val |-> NilV, found |-> FALSE, err |-> NoErr, panic |-> TRUE]

\* refVal.Index(i).Kind(): the static element kind of the slice
IndexKind(slice, i) ==
  IF slice.elem = "interface" THEN "interface" ELSE Kind(slice.val[i])

\* one round of the loop of GetArray: the converted element, or the error
\* (or fault) the loop leaves with
ConvertItem(refType, slice, i) ==
  LET item == slice.val[i]
      k == IndexKind(slice, i)
      bad == [ok |-> FALSE, panic |-> FALSE, val |-> NilV,
              err |-> ElementTypeError(item, i - 1, refType)]
      good(v) == [ok |-> TRUE, panic |-> FALSE, val |-> v, err |-> NoErr]
      fault == [ok |-> FALSE, panic |-> TRUE, val |-> NilV, err |-> NoErr]
  IN IF refType = k
       THEN IF k = "map" /\ item.keys # "string" THEN fault ELSE good(item)
     ELSE CASE refType = "int" ->
                 (CASE k = "bool" -> good(IntV(IF item.val THEN 1 ELSE 0))
                    [] k = "float64" -> good(IntV(FloatToInt(item.val)))
                    [] k = "string" ->
                         LET a == Atoi(item.val)
                             f == ParseFloat(item.val)
                         IN good(IntV(IF a.ok THEN a.val
                                      ELSE FloatToInt(f.val)))
                    [] OTHER -> bad)
            [] refType = "float64" ->
                 (CASE k = "bool" ->
                         good(FloatV(IF item.val THEN IntToFloat(1) ELSE 0))
                    [] k = "int" -> good(FloatV(IntToFloat(item.val)))
                    [] k = "string" -> good(FloatV(ParseFloat(item.val).val))
                    [] OTHER -> bad)
            [] refType = "string" ->
                 (CASE k = "bool" ->
                         good(StrV(IF item.val THEN <<"t", "r", "u", "e">>
                                   ELSE <<"f", "a", "l", "s", "e">>))
                    [] k = "int" -> good(StrV(Itoa(item.val)))
                    [] k = "float64" -> good(StrV(Sprintf9f(item.val)))
                    [] k = "interface" ->
                         IF item.kind = "string" THEN good(item) ELSE bad
                    [] OTHER -> bad)
            [] OTHER -> bad

RECURSIVE ConvertFrom(_, _, _, _)
\* the loop of GetArray from element i on; done holds the elements set
ConvertFrom(refType, slice, i, done) ==
  IF i > Len(slice.val) THEN Ret3(SliceV(refType, done), TRUE, NoErr)
  ELSE LET c == ConvertItem(refType, slice, i)
       IN IF c.panic THEN Panic3
          ELSE IF ~c.ok THEN Ret3(NilV, FALSE, c.err)
          ELSE ConvertFrom(refType, slice, i + 1, Append(done, c.val))

SupportedTypes == {"int", "float64", "string", "map"}

\* GetArray that looks at the element type before it looks at the value
ArrayOfTypeFirst(g, refType) ==
  LET val == g.val
  IN IF g.panic THEN Panic3
     ELSE IF g.err # NoErr THEN Ret3(NilV, FALSE, g.err)
     ELSE IF val.kind = "nil" THEN Panic3
     ELSE IF refType \notin SupportedTypes
       THEN Ret3(NilV, FALSE, UnsupportedTypeError(refType))
     ELSE IF Kind(val) # "slice"
       THEN Ret3(NilV, FALSE, InvalidTypeError(val, "array"))
     ELSE IF Len(val.val) = 0 THEN Ret3(NilV, FALSE, NoErr)
     ELSE ConvertFrom(refType, val, 1, <<>>)

\* GetArray that reports an unsupported element type as an invalid type
ArrayOfInvalidType(g, refType) ==
  LET val == g.val
  IN IF g.panic THEN Panic3
     ELSE IF g.err # NoErr THEN Ret3(NilV, FALSE, g.err)
     ELSE IF val.kind = "nil" THEN Panic3
     ELSE IF Kind(val) # "slice"
       THEN Ret3(NilV, FALSE, InvalidTypeError(val, "array"))
     ELSE IF Len(val.val) = 0 THEN Ret3(NilV, FALSE, NoErr)
     ELSE IF refType \notin SupportedTypes
       THEN Ret3(NilV, FALSE, InvalidTypeError(val, refType))
     ELSE ConvertFrom(refType, val, 1, <<>>)

\* the part of GetArray after its call of Get, which returned g
ArrayOf(g, refType) ==
  LET val == g.val
  IN IF g.panic THEN Panic3
     ELSE IF g.err # NoErr THEN Ret3(NilV, FALSE, g.err)
     ELSE IF val.kind = "nil" THEN Panic3
     ELSE IF Kind(val) # "slice"
       THEN Ret3(NilV, FALSE, InvalidTypeError(val, "array"))
     ELSE IF Len(val.val) = 0 THEN Ret3(NilV, FALSE, NoErr)
     ELSE IF refType \notin SupportedTypes
       THEN Ret3(NilV, FALSE, UnsupportedTypeError(refType))
     ELSE ConvertFrom(refType, val, 1, <<>>)

\* this.GetArray(refType, path)
GetArray(this, refType, p) == ArrayOf(Get(this, p, <<>>), refType)

\* a list accessor that returns the nil result of GetArray as it is
ListOfNil(a, refType, fallback) ==
  IF a.panic THEN Panic
  ELSE IF a.err # NoErr
    THEN IF Len(fallback) > 0 /\ a.err.type = "NotFoundError"
           THEN Ret(fallback[1], NoErr)
           ELSE Ret(NilV, a.err)
  ELSE Ret(a.val, NoErr)

\* the shape shared by GetInts, GetFloats, GetStrings and GetMaps
\* a is what GetArray returned
ListOf(a, refType, fallback) ==
  IF a.panic THEN Panic
  ELSE IF a.err # NoErr
    THEN IF Len(fallback) > 0 /\ a.err.type = "NotFoundError"
           THEN Ret(fallback[1], NoErr)
           ELSE Ret(NilV, a.err)
  ELSE IF ~a.found THEN Ret(SliceV(refType, <<>>), NoErr)
  ELSE Ret(a.val, NoErr)

GetInts(this, p, fallback) ==
  ListOf(GetArray(this, "int", p), "int", fallback)
GetFloats(this, p, fallback) ==
  ListOf(GetArray(this, "float64", p), "float64", fallback)
GetStrings(this, p, fallback) ==
  ListOf(GetArray(this, "string", p), "string", fallback)
GetMaps(this, p, fallback) ==
  ListOf(GetArray(this, "map", p), "map", fallback)

\* the loop subs[i] = &MapPath{m} of GetSubs
Wrap(maps) == [i \in 1..Len(maps) |-> HandleV(maps[i].val)]

\* this.GetSubs(path, fallback...)
SubsOf(a, fallback) ==
  IF a.panic THEN Panic
  ELSE IF a.err # NoErr
    THEN IF Len(fallback) > 0 /\ a.err.type = "NotFoundError"
           THEN Ret(fallback[1], NoErr)
           ELSE Ret(NilV, a.err)
  ELSE IF ~a.found THEN Ret(SliceV("handle", <<>>), NoErr)
  ELSE Ret(SliceV("handle", Wrap(a.val.val)), NoErr)

GetSubs(this, p, fallback) == SubsOf(GetArray(this, "map", p), fallback)

GetIntsV(this, p, fallback) ==
  ValueOnly(GetInts(this, p, fallback), fallback, NilV)
GetFloatsV(this, p, fallback) ==
  ValueOnly(GetFloats(this, p, fallback), fallback, NilV)
GetStringsV(this, p, fallback) ==
  ValueOnly(GetStrings(this, p, fallback), fallback, NilV)
GetMapsV(this, p, fallback) ==
  ValueOnly(GetMaps(this, p, fallback), fallback, NilV)
GetSubsV(this, p, fallback) ==
  ValueOnly(GetSubs(this, p, fallback), fallback, NilV)

(* ------------------------------ inputs -------------------------------- *)

\* all sequences over S of length lo..hi
SeqsOf(S, lo, hi) == UNION {[1..n -> S] : n \in lo..hi}

RECURSIVE Join(_)
\* strings.Join(segs, "/")
Join(segs) ==
  IF Len(segs) = 1 THEN segs[1] ELSE segs[1] \o <<"/">> \o Join(Tail2(segs))

\* the segments paths are built from: keys, indexes, and strings that are
\* neither
Segments ==
  {<<>>, <<"a">>, <<"b">>, <<"0">>, <<"1">>, <<"-", "1">>, <<"0", "1">>}

Paths == {Join(segs) : segs \in SeqsOf(Segments, 1, MaxDepth)}

\* map[string]interface{} literals with one, two and three keys
M1(k1, v1) == MapV([x \in {k1} |-> v1])
M2(k1, v1, k2, v2) == MapV([x \in {k1, k2} |-> IF x = k1 THEN v1 ELSE v2])
M3(k1, v1, k2, v2, k3, v3) ==
  MapV([x \in {k1, k2, k3} |-> IF x = k1 THEN v1 ELSE IF x = k2 THEN v2 ELSE v3])

\* the strings a Document holds: everything number-like up to MaxNumLen
\* characters, and words
NumChars == {"0", "1", "9", "-", "."}
Words ==
  {<<"t", "r", "u", "e">>, <<"y", "e", "s">>, <<"f", "a", "l", "s", "e">>,
   <<"n", "o">>, <<"T", "r", "u", "e">>, <<"Y", "E", "S">>, <<"N", "o">>,
   <<"o", "n">>, <<"x">>, <<"+", "1">>, <<"+", ".", "9">>}
Strings == SeqsOf(NumChars, 0, MaxNumLen) \cup Words

Bools == {BoolV(TRUE), BoolV(FALSE)}
Ints == {IntV(n) : n \in {-1, 0, 1, 12}}
\* 0.0, 1.0, 1.5, -1.5 and -0.5
Floats ==
  {FloatV(n) : n \in {0, Scale, Scale + Scale \div 2, -(Scale + Scale \div 2),
                      -(Scale \div 2)}}
Scalars == Bools \cup Ints \cup Floats \cup {StrV(s) : s \in Strings}

Maps ==
  {MapV(<<>>), M1(<<"b">>, IntV(1)), M2(<<"b">>, StrV(<<"x">>), <<"0">>, BoolV(TRUE))}

Slices ==
  {SliceV("interface", <<>>),
   SliceV("int", <<IntV(1), IntV(2)>>),
   SliceV("float64", <<FloatV(Scale + Scale \div 2)>>),
   SliceV("bool", <<BoolV(TRUE), BoolV(FALSE)>>),
   SliceV("string", <<StrV(<<"1">>), StrV(<<"-", ".", "9">>)>>),
   SliceV("string", <<StrV(<<"1">>), StrV(<<"x">>)>>),
   SliceV("map", <<M1(<<"b">>, IntV(1)), MapV(<<>>)>>),
   SliceV("interface", <<IntV(1), StrV(<<"x">>)>>),
   SliceV("interface", <<M1(<<"b">>, IntV(1))>>),
   SliceV("interface",
          <<BoolV(TRUE), FloatV(-(Scale + Scale \div 2)), IntV(1)>>),
   SliceV("int", <<>>),
   SliceV("slice", <<SliceV("int", <<IntV(1)>>)>>)}

Leaves == Scalars \cup Maps \cup Slices

\* Documents whose shape is explored with every path
TreeDocs ==
  {M3(<<"a">>, SliceV("interface", <<M1(<<"b">>, StrV(<<"x">>))>>),
      <<"b">>, M3(<<"a">>, IntV(1), <<"0">>, BoolV(TRUE), <<>>, FloatV(Scale)),
      <<"0">>, IntV(12)),
   M3(<<"a">>, SliceV("interface",
                  <<SliceV("int", <<IntV(1), IntV(2)>>),
                    SliceV("interface", <<>>), StrV(<<"b">>)>>),
      <<"b">>, M1(<<"b">>, M2(<<"b">>, BoolV(TRUE), <<"a">>, MapV(<<>>))),
      <<"1">>, SliceV("map", <<M1(<<"0">>, SliceV("bool", <<BoolV(FALSE)>>)),
                             M1(<<>>, StrV(<<>>))>>))}

\* a Document that holds the value l under a key, inside a slice, and
\* inside a map inside a slice
LeafDoc(l) ==
  M2(<<"s">>, l,
     <<"a">>, SliceV("interface", <<M1(<<"b">>, l), l>>))

LeafPaths ==
  {<<"s">>, <<"a", "/", "0", "/", "b">>, <<"a", "/", "1">>,
   <<"a", "/", "2">>, <<"s", "/", "b">>}

Inputs ==
  (TreeDocs \X Paths) \cup ({LeafDoc(l) : l \in Leaves} \X LeafPaths)

(* --------------------------- state machine ---------------------------- *)

NoCall == [op |-> "none"]

\* zero or one variadic fallback argument
Variadic(S) == {<<>>} \cup {<<f>> : f \in S}

AnyFallbacks == Variadic({NilV, IntV(7), StrV(<<"x">>)})
BoolFallbacks == Variadic(Bools)
IntFallbacks == Variadic({IntV(0), IntV(7)})
FloatFallbacks == Variadic({FloatV(0), FloatV(Scale + Scale \div 2)})
StringFallbacks == Variadic({StrV(<<>>), StrV(<<"1">>)})
MapFallbacks == Variadic({MapV(<<>>), M1(<<"a">>, IntV(7))})
SubFallbacks == Variadic({NilV, HandleV(M1(<<"a">>, IntV(7)).val)})
IntsFallbacks == Variadic({SliceV("int", <<>>), SliceV("int", <<IntV(7)>>)})
FloatsFallbacks == Variadic({SliceV("float64", <<FloatV(Scale)>>)})
StringsFallbacks == Variadic({SliceV("string", <<StrV(<<"x">>)>>)})
MapsFallbacks == Variadic({SliceV("map", <<M1(<<"a">>, IntV(7))>>)})
SubsFallbacks ==
  Variadic({SliceV("handle", <<HandleV(M1(<<"a">>, IntV(7)).val)>>)})

\* a file system without files
NoFiles == <<>>

\* NewMapPath(root) on a Document, and the path a caller is about to pass;
\* initial keeps the handle as it was constructed and calls counts the calls
\* made on it
Init ==
  /\ \E in \in Inputs : root = NewMapPath(in[1]) /\ path = in[2]
  /\ result = NoCall
  /\ initial = root
  /\ calls = 0
  /\ disk = NoFiles

\* the record a call leaves: the accessor, its fallback and what it returned
Returned(name, fb, r) == [op |-> name, fallback |-> fb, ret |-> r]

\* Each action is one call of an accessor on the handle, with the path and
\* zero or one fallback.  No accessor assigns to this.root or stores into a
\* map or slice of the Document.

CallGet ==
  /\ result = NoCall
  /\ \E fb \in AnyFallbacks :
       result' = Returned("Get", fb, Get(root, path, fb))
  /\ calls' = calls + 1
  /\ UNCHANGED <<root, path, initial, disk>>

CallHas ==
  /\ result = NoCall
  /\ result' = Returned("Has", <<>>, Has(root, path))
  /\ calls' = calls + 1
  /\ UNCHANGED <<root, path, initial, disk>>

CallGetBool ==
  /\ result = NoCall
  /\ \E fb \in BoolFallbacks :
       result' = Returned("GetBool", fb, GetBool(root, path, fb))
  /\ calls' = calls + 1
  /\ UNCHANGED <<root, path, initial, disk>>

CallGetBoolV ==
  /\ result = NoCall
  /\ \E fb \in BoolFallbacks :
       result' = Returned("GetBoolV", fb, GetBoolV(root, path, fb))
  /\ calls' = calls + 1
  /\ UNCHANGED <<root, path, initial, disk>>

CallGetInt ==
  /\ result = NoCall
  /\ \E fb \in IntFallbacks :
       result' = Returned("GetInt", fb, GetInt(root, path, fb))
  /\ calls' = calls + 1
  /\ UNCHANGED <<root, path, initial, disk>>

CallGetIntV ==
  /\ result = NoCall
  /\ \E fb \in IntFallbacks :
       result' = Returned("GetIntV", fb, GetIntV(root, path, fb))
  /\ calls' = calls + 1
  /\ UNCHANGED <<root, path, initial, disk>>

CallGetFloat ==
  /\ result = NoCall
  /\ \E fb \in FloatFallbacks :
       result' = Returned("GetFloat", fb, GetFloat(root, path, fb))
  /\ calls' = calls + 1
  /\ UNCHANGED <<root, path, initial, disk>>

CallGetFloatV ==
  /\ result = NoCall
  /\ \E fb \in FloatFallbacks :
       result' = Returned("GetFloatV", fb, GetFloatV(root, path, fb))
  /\ calls' = calls + 1
  /\ UNCHANGED <<root, path, initial, disk>>

CallGetString ==
  /\ result = NoCall
  /\ \E fb \in StringFallbacks :
       result' = Returned("GetString", fb, GetString(root, path, fb))
  /\ calls' = calls + 1
  /\ UNCHANGED <<root, path, initial, disk>>

CallGetStringV ==
  /\ result = NoCall
  /\ \E fb \in StringFallbacks :
       result' = Returned("GetStringV", fb, GetStringV(root, path, fb))
  /\ calls' = calls + 1
  /\ UNCHANGED <<root, path, initial, disk>>

CallGetMap ==
  /\ result = NoCall
  /\ \E fb \in MapFallbacks :
       result' = Returned("GetMap", fb, GetMap(root, path, fb))
  /\ calls' = calls + 1
  /\ UNCHANGED <<root, path, initial, disk>>

CallGetMapV ==
  /\ result = NoCall
  /\ \E fb \in MapFallbacks :
       result' = Returned("GetMapV", fb, GetMapV(root, path, fb))
  /\ calls' = calls + 1
  /\ UNCHANGED <<root, path, initial, disk>>

\* GetSub that moves the handle itself to the sub-structure
\* (this.root = branch) before it returns the handle
CallGetSubReroot ==
  /\ result = NoCall
  /\ \E fb \in SubFallbacks :
       LET r == GetSub(root, path, fb)
       IN /\ result' = Returned("GetSub", fb, r)
          /\ root' = IF r.val.kind = "handle" /\ fb = <<>> THEN r.val ELSE root
  /\ calls' = calls + 1
  /\ UNCHANGED <<path, initial, disk>>

CallGetSub ==
  /\ result = NoCall
  /\ \E fb \in SubFallbacks :
       result' = Returned("GetSub", fb, GetSub(root, path, fb))
  /\ calls' = calls + 1
  /\ UNCHANGED <<root, path, initial, disk>>

CallGetSubV ==
  /\ result = NoCall
  /\ \E fb \in SubFallbacks :
       result' = Returned("GetSubV", fb, GetSubV(root, path, fb))
  /\ calls' = calls + 1
  /\ UNCHANGED <<root, path, initial, disk>>

CallGetInts ==
  /\ result = NoCall
  /\ \E fb \in IntsFallbacks :
       result' = Returned("GetInts", fb, GetInts(root, path, fb))
  /\ calls' = calls + 1
  /\ UNCHANGED <<root, path, initial, disk>>

CallGetIntsV ==
  /\ result = NoCall
  /\ \E fb \in IntsFallbacks :
       result' = Returned("GetIntsV", fb, GetIntsV(root, path, fb))
  /\ calls' = calls + 1
  /\ UNCHANGED <<root, path, initial, disk>>

CallGetFloats ==
  /\ result = NoCall
  /\ \E fb \in FloatsFallbacks :
       result' = Returned("GetFloats", fb, GetFloats(root, path, fb))
  /\ calls' = calls + 1
  /\ UNCHANGED <<root, path, initial, disk>>

CallGetFloatsV ==
  /\ result = NoCall
  /\ \E fb \in FloatsFallbacks :
       result' = Returned("GetFloatsV", fb, GetFloatsV(root, path, fb))
  /\ calls' = calls + 1
  /\ UNCHANGED <<root, path, initial, disk>>

CallGetStrings ==
  /\ result = NoCall
  /\ \E fb \in StringsFallbacks :
       result' = Returned("GetStrings", fb, GetStrings(root, path, fb))
  /\ calls' = calls + 1
  /\ UNCHANGED <<root, path, initial, disk>>

CallGetStringsV ==
  /\ result = NoCall
  /\ \E fb \in StringsFallbacks :
       result' = Returned("GetStringsV", fb, GetStringsV(root, path, fb))
  /\ calls' = calls + 1
  /\ UNCHANGED <<root, path, initial, disk>>

CallGetMaps ==
  /\ result = NoCall
  /\ \E fb \in MapsFallbacks :
       result' = Returned("GetMaps", fb, GetMaps(root, path, fb))
  /\ calls' = calls + 1
  /\ UNCHANGED <<root, path, initial, disk>>

CallGetMapsV ==
  /\ result = NoCall
  /\ \E fb \in MapsFallbacks :
       result' = Returned("GetMapsV", fb, GetMapsV(root, path, fb))
  /\ calls' = calls + 1
  /\ UNCHANGED <<root, path, initial, disk>>

CallGetSubs ==
  /\ result = NoCall
  /\ \E fb \in SubsFallbacks :
       result' = Returned("GetSubs", fb, GetSubs(root, path, fb))
  /\ calls' = calls + 1
  /\ UNCHANGED <<root, path, initial, disk>>

CallGetSubsV ==
  /\ result = NoCall
  /\ \E fb \in SubsFallbacks :
       result' = Returned("GetSubsV", fb, GetSubsV(root, path, fb))
  /\ calls' = calls + 1
  /\ UNCHANGED <<root, path, initial, disk>>

\* GetArray takes the element type and no fallback
CallGetArray ==
  /\ result = NoCall
  /\ \E t \in SupportedTypes \cup {"bool", "slice"} :
       result' = [op |-> "GetArray", refType |-> t,
                  ret |-> GetArray(root, t, path)]
  /\ calls' = calls + 1
  /\ UNCHANGED <<root, path, initial, disk>>

Next ==
  \/ CallGet \/ CallHas
  \/ CallGetBool \/ CallGetBoolV
  \/ CallGetInt \/ CallGetIntV
  \/ CallGetFloat \/ CallGetFloatV
  \/ CallGetString \/ CallGetStringV
  \/ CallGetMap \/ CallGetMapV
  \/ CallGetSub \/ CallGetSubV
  \/ CallGetArray
  \/ CallGetInts \/ CallGetIntsV
  \/ CallGetFloats \/ CallGetFloatsV
  \/ CallGetStrings \/ CallGetStringsV
  \/ CallGetMaps \/ CallGetMapsV
  \/ CallGetSubs \/ CallGetSubsV

Spec == Init /\ [][Next]_vars

(* ------------------------- calls one after another -------------------- *)

\* a Document with a map[interface{}]interface{} whose keys are strings,
\* as a YAML decoder yields it
IDoc ==
  M2(<<"m">>, IMapV(<<<<StrV(<<"a">>), IntV(1)>>,
                      <<StrV(<<"b">>),
                        IMapV(<<<<StrV(<<"0">>), BoolV(TRUE)>>>>)>>>>),
     <<"a">>, SliceV("map", <<M1(<<"b">>, IntV(1))>>))

CallSegments == {<<"a">>, <<"b">>, <<"m">>, <<"0">>, <<"1">>}
CallPaths == {Join(segs) : segs \in SeqsOf(CallSegments, 1, 2)}
                \cup {<<"a", "/", "0", "/", "b">>, <<"m", "/", "b", "/", "0">>}

InitCalls ==
  /\ \/ \E d \in TreeDocs : root = NewMapPath(d)
     \/ root = NewMapPath(IDoc)
  /\ path \in CallPaths
  /\ result = NoCall
  /\ initial = root
  /\ calls = 0
  /\ disk = NoFiles

\* the call has returned and a caller passes the next path to the handle
Return ==
  /\ result # NoCall
  /\ calls < MaxCalls
  /\ result' = NoCall
  /\ path' \in CallPaths
  /\ UNCHANGED <<root, initial, calls, disk>>

NextCalls == Next \/ Return

SpecCalls == InitCalls /\ [][NextCalls]_vars

(* ------------------- Documents of permissive decoders ------------------ *)

\* a Document with null values: at a leaf, in a slice, inside a map inside
\* a slice; and an empty map
NullDoc ==
  M3(<<"n">>, NilV,
     <<"a">>, SliceV("interface", <<NilV, M1(<<"n">>, NilV)>>),
     <<"e">>, MapV(<<>>))

\* a Document with maps of the type map[interface{}]interface{} whose keys
\* are an int, a string and a bool
KeyDoc ==
  M2(<<"m">>, IMapV(<<<<IntV(1), StrV(<<"x">>)>>,
                      <<StrV(<<"k">>), IntV(2)>>,
                      <<BoolV(TRUE), NilV>>>>),
     <<"s">>, IMapV(<<<<StrV(<<"a">>), IMapV(<<<<IntV(0), IntV(5)>>>>)>>>>))

AnyPaths ==
  {<<"n">>,
   <<"n", "/", "x">>,
   <<"a">>,
   <<"a", "/", "0">>,
   <<"a", "/", "0", "/", "x">>,
   <<"a", "/", "1">>,
   <<"a", "/", "1", "/", "n">>,
   <<"a", "/", "1", "/", "n", "/", "x">>,
   <<"e">>,
   <<"e", "/", "x">>,
   <<"m">>,
   <<"m", "/", "1">>,
   <<"m", "/", "k">>,
   <<"m", "/", "t", "r", "u", "e">>,
   <<"m", "/", "k", "/", "x">>,
   <<"s">>,
   <<"s", "/", "a">>,
   <<"s", "/", "a", "/", "0">>,
   <<"m", "/", "%", "!", "s", "(", "i", "n", "t", "=", "1", ")">>,
   <<"x">>}

InitAny ==
  /\ root \in {NewMapPath(NullDoc), NewMapPath(KeyDoc)}
  /\ path \in AnyPaths
  /\ result = NoCall
  /\ initial = root
  /\ calls = 0
  /\ disk = NoFiles

SpecAny == InitAny /\ [][Next]_vars

(* ------------------------------- JSON --------------------------------- *)

\* json.Unmarshal(in, &data) with data an interface{}, on texts without
\* white space, escapes, fractions and exponents.  A parse hands back
\* whether it succeeded, the value and the text left.
ParseOk(v, rest) == [ok |-> TRUE, val |-> v, rest |-> rest]
ParseFail == [ok |-> FALSE, val |-> NilV, rest |-> <<>>]

StartsWith(s, lit) == Len(s) >= Len(lit) /\ SubSeq(s, 1, Len(lit)) = lit

\* a string literal at the head of s, which starts with a quote
ParseString(s) ==
  LET j == IndexOf(s, "\"", 2)
  IN IF j = 0 THEN ParseFail
     ELSE ParseOk(StrV(SubSeq(s, 2, j - 1)), SubSeq(s, j + 1, Len(s)))

RECURSIVE DigitRun(_, _)
\* the number of digits at the head of s from position i on
DigitRun(s, i) ==
  IF i > Len(s) \/ s[i] \notin Digits THEN 0 ELSE 1 + DigitRun(s, i + 1)

\* a number at the head of s; a number that starts with 0 ends there.
\* Numbers decode to float64.
ParseNumber(s) ==
  LET neg == s[1] = "-"
      body == IF neg THEN Tail2(s) ELSE s
      run == DigitRun(body, 1)
      n == IF run > 0 /\ body[1] = "0" THEN 1 ELSE run
      mag == IntToFloat(DigitsVal(SubSeq(body, 1, n), 0))
  IN IF run = 0 THEN ParseFail
     ELSE ParseOk(FloatV(IF neg THEN -mag ELSE mag),
                  SubSeq(body, n + 1, Len(body)))

RECURSIVE ParseValue(_)
RECURSIVE ParseMembers(_, _)
RECURSIVE ParseElements(_, _)

\* after the value v of the member named k: a comma and more members, or
\* the closing brace
AfterMember(v, k, m) ==
  LET m2 == [x \in DOMAIN m \cup {k} |-> IF x = k THEN v.val ELSE m[x]]
  IN IF ~v.ok \/ v.rest = <<>> THEN ParseFail
     ELSE IF v.rest[1] = "," THEN ParseMembers(Tail2(v.rest), m2)
     ELSE IF v.rest[1] = "}" THEN ParseOk(MapV(m2), Tail2(v.rest))
     ELSE ParseFail

\* after the name k of a member: a colon and the value
AfterName(k, m) ==
  IF ~k.ok \/ k.rest = <<>> \/ k.rest[1] # ":" THEN ParseFail
  ELSE AfterMember(ParseValue(Tail2(k.rest)), k.val.val, m)

\* the members of an object from s on, m holding the members read; a
\* repeated name keeps the last value
ParseMembers(s, m) ==
  IF s = <<>> \/ s[1] # "\"" THEN ParseFail
  ELSE AfterName(ParseString(s), m)

\* after the element v of an array: a comma and more elements, or the
\* closing bracket
AfterElement(v, items) ==
  IF ~v.ok \/ v.rest = <<>> THEN ParseFail
  ELSE IF v.rest[1] = ","
    THEN ParseElements(Tail2(v.rest), Append(items, v.val))
  ELSE IF v.rest[1] = "]"
    THEN ParseOk(SliceV("interface", Append(items, v.val)), Tail2(v.rest))
  ELSE ParseFail

ParseElements(s, items) == AfterElement(ParseValue(s), items)

ParseValue(s) ==
  IF s = <<>> THEN ParseFail
  ELSE IF s[1] = "{"
    THEN IF Len(s) > 1 /\ s[2] = "}"
           THEN ParseOk(MapV(<<>>), SubSeq(s, 3, Len(s)))
           ELSE ParseMembers(Tail2(s), <<>>)
  ELSE IF s[1] = "["
    THEN IF Len(s) > 1 /\ s[2] = "]"
           THEN ParseOk(SliceV("interface", <<>>), SubSeq(s, 3, Len(s)))
           ELSE ParseElements(Tail2(s), <<>>)
  ELSE IF s[1] = "\"" THEN ParseString(s)
  ELSE IF StartsWith(s, <<"t", "r", "u", "e">>)
    THEN ParseOk(BoolV(TRUE), SubSeq(s, 5, Len(s)))
  ELSE IF StartsWith(s, <<"f", "a", "l", "s", "e">>)
    THEN ParseOk(BoolV(FALSE), SubSeq(s, 6, Len(s)))
  ELSE IF StartsWith(s, <<"n", "u", "l", "l">>)
    THEN ParseOk(NilV, SubSeq(s, 5, Len(s)))
  ELSE IF s[1] = "-" \/ s[1] \in Digits THEN ParseNumber(s)
  ELSE ParseFail

\* the value and the error of json.Unmarshal: the whole text is one value
UnmarshalOf(r) ==
  IF r.ok /\ r.rest = <<>> THEN Ret(r.val, NoErr)
  ELSE Ret(NilV, [type |-> "SyntaxError"])

Unmarshal(in) == UnmarshalOf(ParseValue(in))

\* FromJson that decodes into a map[string]interface{} variable: null
\* decodes without error and leaves the map nil
FromJsonOfIntoMap(d) ==
  IF d.err # NoErr THEN Ret(NilV, d.err)
  ELSE IF d.val.kind = "map" THEN Ret(NewMapPath(d.val), NoErr)
  ELSE IF d.val.kind = "nil" THEN Ret(HandleV(<<>>), NoErr)
  ELSE Ret(NilV, [type |-> "UnmarshalTypeError", str |-> d.val.kind])

\* the part of FromJson after json.Unmarshal, which returned d
FromJsonOf(d) ==
  IF d.err # NoErr THEN Ret(NilV, d.err)
  ELSE IF d.val.kind = "map" THEN Ret(NewMapPath(d.val), NoErr)
  ELSE Ret(NilV, [type |-> "errorString", str |-> d.val.kind])

\* FromJson(in)
FromJson(in) == FromJsonOf(Unmarshal(in))

\* ioutil.ReadFile(file) on the file system files
ReadFile(files, file) ==
  IF file \in DOMAIN files THEN Ret(files[file], NoErr)
  ELSE Ret(NilV, [type |-> "PathError", path |-> file])

\* the part of FromJsonFile after ioutil.ReadFile, which returned in
FromJsonFileOf(in) ==
  IF in.err # NoErr THEN Ret(NilV, in.err) ELSE FromJson(in.val)

\* FromJsonFile(file)
FromJsonFile(files, file) == FromJsonFileOf(ReadFile(files, file))

\* the characters generated texts are made of
JsonChars == {"{", "}", "[", "]", "\"", "a", ":", "1", ","}

JsonTexts ==
  SeqsOf(JsonChars, 0, MaxJsonLen) \cup
  {<<"n", "u", "l", "l">>,
   <<"t", "r", "u", "e">>,
   <<"f", "a", "l", "s", "e">>,
   <<"-", "1">>,
   <<"0", "1">>,
   <<"0">>,
   <<"{", "\"", "a", "\"", ":", "1", "}">>,
   <<"{", "\"", "a", "\"", ":", "n", "u", "l", "l", "}">>,
   <<"{", "\"", "a", "\"", ":", "[", "1", ",", "\"", "a", "\"", ",", "{", "}", "]", "}">>,
   <<"{", "\"", "a", "\"", ":", "1", ",", "\"", "a", "\"", ":", "\"", "a", "\"", "}">>,
   <<"{", "\"", "a", "\"", ":", "1", "}", "x">>,
   <<"{", "\"", "a", "\"", ":", "1", ",", "}">>,
   <<"{", "\"", "\"", ":", "1", "}">>,
   <<"[", "{", "\"", "a", "\"", ":", "1", "}", "]">>,
   <<"{", "\"", "a", "\"", ":", "{", "\"", "a", "\"", ":", "t", "r", "u", "e", "}", "}">>,
   <<"{", "\"", "a", "\"", ":", "1">>,
   <<"{", "a", ":", "1", "}">>,
   <<"{", "\"", "a", "\"", ":", "[", "}">>,
   <<"n", "u", "l">>,
   <<"{", "\"", "a", "\"", ":", "-", "}">>}

\* a file system with one file, named "a", and the name a caller passes:
\* that of the file or that of no file
InitJson ==
  /\ \E t \in JsonTexts : disk = [n \in {<<"a">>} |-> t]
  /\ path \in {<<"a">>, <<"b">>}
  /\ root = NilV
  /\ initial = root
  /\ result = NoCall
  /\ calls = 0

\* FromJson on the bytes of a file a caller has read
CallFromJson ==
  /\ result = NoCall
  /\ \E n \in DOMAIN disk :
       LET r == FromJson(disk[n])
       IN /\ result' = [op |-> "FromJson", in |-> disk[n], ret |-> r]
          /\ root' = r.val
          /\ initial' = r.val
  /\ UNCHANGED <<path, calls, disk>>

CallFromJsonFile ==
  /\ result = NoCall
  /\ LET r == FromJsonFile(disk, path)
     IN /\ result' = [op |-> "FromJsonFile", file |-> path, ret |-> r]
        /\ root' = r.val
        /\ initial' = r.val
  /\ UNCHANGED <<path, calls, disk>>

NextJson == CallFromJson \/ CallFromJsonFile

SpecJson == InitJson /\ [][NextJson]_vars

(* ------------------- the vocabulary of the properties ----------------- *)

\* a segment that parses as a base-10 integer in [0, n)
IsIndex(seg, n) == Atoi(seg).ok /\ Atoi(seg).val >= 0 /\ Atoi(seg).val < n

RECURSIVE Walk(_, _)
\* following segs from node: a key of a map node, an index of a slice
\* node; ok tells whether every segment could be followed, node is the node
\* reached, at is the node where following stopped and rest the segments
\* left there
Walk(node, segs) ==
  IF segs = <<>> THEN [ok |-> TRUE, node |-> node, at |-> node, rest |-> <<>>]
  ELSE IF node.kind = "map" /\ node.keys = "string" /\ segs[1] \in DOMAIN node.val
    THEN Walk(node.val[segs[1]], Tail2(segs))
  ELSE IF node.kind = "slice" /\ IsIndex(segs[1], Len(node.val))
    THEN Walk(node.val[Atoi(segs[1]).val + 1], Tail2(segs))
  ELSE [ok |-> FALSE, node |-> NilV, at |-> node, rest |-> segs]

\* the walk of the path of this state through the Document of this state
Walked == Walk(MapV(root.val), Split(path))
Resolves == Walked.ok
Node == Walked.node

ScalarKinds == {"bool", "int", "float64", "string"}

\* the accessors that return a value and an error
Erroring ==
  {"Get", "GetBool", "GetInt", "GetFloat", "GetString", "GetMap", "GetSub",
   "GetInts", "GetFloats", "GetStrings", "GetMaps", "GetSubs"}
ValueOnlyOps ==
  {"GetBoolV", "GetIntV", "GetFloatV", "GetStringV", "GetMapV", "GetSubV",
   "GetIntsV", "GetFloatsV", "GetStringsV", "GetMapsV", "GetSubsV"}

Called(ops) == result.op \in ops
Succeeded(r) == ~r.panic /\ r.err = NoErr

(* ------------------------------- C1 ----------------------------------- *)

\* C1: when every segment of the path can be followed from the root (a key
\* of the current map node, or an index within the current slice node), Get
\* returns exactly the node reached after the last segment, and no error.
C1_GetReturnsNodeReached ==
  (Called({"Get"}) /\ Resolves) => result.ret = Ret(Node, NoErr)

\* Get("a/0/b") on {"a": [{"b": "x"}], ...} returned "x"
C1_Witness ==
  /\ Called({"Get"})
  /\ path = <<"a", "/", "0", "/", "b">>
  /\ Resolves
  /\ result.ret = Ret(StrV(<<"x">>), NoErr)

(* ------------------------------- C2 ----------------------------------- *)

\* C2: Get and every typed accessor, called without a fallback on a path
\* that does not resolve, fails with a NotFoundError that carries the path
\* exactly as the caller passed it.
C2_NotFoundCarriesPath ==
  (Called(Erroring) /\ result.fallback = <<>> /\ ~Resolves)
    => (~result.ret.panic /\ result.ret.err = NotFoundError(path))

\* GetSubs without fallback on a path of several segments that does not
\* resolve
C2_Witness ==
  /\ Called({"GetSubs"})
  /\ result.fallback = <<>>
  /\ ~Resolves
  /\ Len(Split(path)) > 1
  /\ result.ret.err = NotFoundError(path)

(* ------------------------------- C3 ----------------------------------- *)

\* C3: Get and every typed accessor, called with a fallback F on a path
\* that does not resolve, returns exactly F and no error.
C3_FallbackOnMissingPath ==
  (Called(Erroring) /\ result.fallback # <<>> /\ ~Resolves)
    => result.ret = Ret(result.fallback[1], NoErr)

\* GetInt with fallback 7 on a path that does not resolve returned 7
C3_Witness ==
  /\ Called({"GetInt"})
  /\ result.fallback = <<IntV(7)>>
  /\ ~Resolves
  /\ result.ret = Ret(IntV(7), NoErr)

(* ------------------------------- C4 ----------------------------------- *)

TrueStrings == {<<"t", "r", "u", "e">>, <<"y", "e", "s">>}
FalseStrings == {<<"f", "a", "l", "s", "e">>, <<"n", "o">>}

\* the coercion matrix: whether a scalar accessor's target can be made of v
ConvertibleTo(target, v) ==
  CASE target = "bool" ->
         \/ v.kind \in {"bool", "int", "float64"}
         \/ v.kind = "string" /\ v.val \in TrueStrings \cup FalseStrings
    [] target = "int" ->
         \/ v.kind \in {"bool", "int", "float64"}
         \/ v.kind = "string" /\ (Atoi(v.val).ok \/ ParseFloat(v.val).ok)
    [] target = "float64" ->
         \/ v.kind \in {"bool", "int", "float64"}
         \/ v.kind = "string" /\ ParseFloat(v.val).ok
    [] target = "string" -> v.kind \in ScalarKinds
    [] target = "map" -> v.kind = "map"

\* the target of each typed accessor, and of the elements of a list accessor
TargetOf(op) ==
  CASE op \in {"GetBool", "GetBoolV"} -> "bool"
    [] op \in {"GetInt", "GetIntV", "GetInts", "GetIntsV"} -> "int"
    [] op \in {"GetFloat", "GetFloatV", "GetFloats", "GetFloatsV"} -> "float64"
    [] op \in {"GetString", "GetStringV", "GetStrings", "GetStringsV"} -> "string"
    [] OTHER -> "map"

ScalarOps == {"GetBool", "GetInt", "GetFloat", "GetString", "GetMap", "GetSub"}
ListOps == {"GetInts", "GetFloats", "GetStrings", "GetMaps", "GetSubs"}

\* whether the accessor op can convert the value v it found
Convertible(op, v) ==
  IF op \in ListOps
    THEN v.kind = "slice"
         /\ \A i \in 1..Len(v.val) : ConvertibleTo(TargetOf(op), v.val[i])
    ELSE ConvertibleTo(TargetOf(op), v)

\* C4: when the path resolves to a value that cannot be converted to the
\* accessor's target, the erroring accessor returns an InvalidTypeError,
\* with or without a fallback, and never the fallback.
C4_WrongTypeIsInvalidType ==
  (Called(ScalarOps \cup ListOps) /\ Resolves /\ ~Convertible(result.op, Node))
    => (~result.ret.panic /\ result.ret.err.type = "InvalidTypeError")

\* the part of C4 that is about values of the wrong kind: a map or a slice
\* for a scalar accessor, anything but a map for GetMap and GetSub, anything
\* but a slice for a list accessor
C4_WrongKindIsInvalidType ==
  (/\ Called(ScalarOps \cup ListOps)
   /\ Resolves
   /\ \/ result.op \in ListOps /\ Node.kind # "slice"
      \/ result.op \in {"GetMap", "GetSub"} /\ Node.kind # "map"
      \/ result.op \in {"GetBool", "GetInt", "GetFloat", "GetString"}
           /\ Node.kind \notin ScalarKinds)
    => (~result.ret.panic /\ result.ret.err.type = "InvalidTypeError")

(* ------------------------------- C5 ----------------------------------- *)

\* what the erroring counterpart of a value-only accessor returns for the
\* same handle, path and fallback
Counterpart(op, fb) ==
  CASE op = "GetBoolV" -> GetBool(root, path, fb)
    [] op = "GetIntV" -> GetInt(root, path, fb)
    [] op = "GetFloatV" -> GetFloat(root, path, fb)
    [] op = "GetStringV" -> GetString(root, path, fb)
    [] op = "GetMapV" -> GetMap(root, path, fb)
    [] op = "GetSubV" -> GetSub(root, path, fb)
    [] op = "GetIntsV" -> GetInts(root, path, fb)
    [] op = "GetFloatsV" -> GetFloats(root, path, fb)
    [] op = "GetStringsV" -> GetStrings(root, path, fb)
    [] op = "GetMapsV" -> GetMaps(root, path, fb)
    [] op = "GetSubsV" -> GetSubs(root, path, fb)

\* the zero value of what a value-only accessor returns
ZeroOf(op) ==
  CASE op = "GetBoolV" -> BoolV(FALSE)
    [] op = "GetIntV" -> IntV(0)
    [] op = "GetFloatV" -> FloatV(0)
    [] op = "GetStringV" -> StrV(<<>>)
    [] OTHER -> NilV

\* what C5 says a value-only accessor returns, given what its counterpart e
\* returned
ExpectedValueOnly(op, fb, e) ==
  IF Succeeded(e) THEN e.val
  ELSE IF fb # <<>> THEN fb[1]
  ELSE ZeroOf(op)

\* C5: a value-only accessor reports no error and returns the value of its
\* erroring counterpart when that one succeeds, otherwise the fallback if
\* one was supplied, otherwise the zero value of the type.
C5_ValueOnly ==
  Called(ValueOnlyOps)
    => result.ret =
         Ret(ExpectedValueOnly(result.op, result.fallback,
                               Counterpart(result.op, result.fallback)),
             NoErr)

\* GetIntV with fallback 7 on a found map: GetInt fails, 7 is returned
C5_Witness ==
  /\ Called({"GetIntV"})
  /\ result.fallback = <<IntV(7)>>
  /\ Resolves
  /\ Node.kind = "map"
  /\ result.ret = Ret(IntV(7), NoErr)

(* ------------------------------- C6 ----------------------------------- *)

\* the dead ends of C6, at the node where following the path stopped with
\* segments left: the segment is no key of the map; the segment is no
\* index of the slice (non-numeric, negative, or >= its length); the node
\* is a scalar
DeadEnd ==
  LET w == Walked
      seg == w.rest[1]
  IN /\ ~w.ok
     /\ \/ w.at.kind = "map" /\ seg \notin DOMAIN w.at.val
        \/ w.at.kind = "slice"
             /\ (~Atoi(seg).ok \/ Atoi(seg).val < 0
                   \/ Atoi(seg).val >= Len(w.at.val))
        \/ w.at.kind \in ScalarKinds

\* C6: at every dead end resolution reports not-found and no partial value:
\* Has is false, and Get without fallback returns nil and a NotFoundError.
C6_DeadEndsAreNotFound ==
  DeadEnd =>
    /\ Called({"Has"}) => result.ret = Ret(BoolV(FALSE), NoErr)
    /\ (Called({"Get"}) /\ result.fallback = <<>>)
         => result.ret = Ret(NilV, NotFoundError(path))

\* Get stopped at a slice by a negative index
C6_Witness ==
  /\ Called({"Get"})
  /\ result.fallback = <<>>
  /\ DeadEnd
  /\ Walked.at.kind = "slice"
  /\ Walked.rest[1] = <<"-", "1">>
  /\ result.ret = Ret(NilV, NotFoundError(path))

(* ------------------------------- C7 ----------------------------------- *)

\* C7: Has(P) is true exactly when Get(P) without a fallback returns no
\* error, and false exactly when that Get returns a NotFoundError.
C7_HasIffGetSucceeds ==
  Called({"Has"}) =>
    LET g == Get(root, path, <<>>)
    IN /\ ~result.ret.panic
       /\ result.ret.val = BoolV(TRUE) <=> g.err = NoErr
       /\ result.ret.val = BoolV(FALSE) <=> g.err.type = "NotFoundError"

\* Has is true for a path of three segments
C7_Witness ==
  /\ Called({"Has"})
  /\ Len(Split(path)) = 3
  /\ result.ret.val = BoolV(TRUE)
  /\ Get(root, path, <<>>).err = NoErr

(* ------------------------------- C8 ----------------------------------- *)

\* C8: GetInt on a found boolean returns 1 for true and 0 for false,
\* GetFloat returns 1.0 and 0.0, both without error.
C8_BoolToNumber ==
  (Resolves /\ Node.kind = "bool") =>
    /\ Called({"GetInt"}) =>
         result.ret = Ret(IntV(IF Node.val THEN 1 ELSE 0), NoErr)
    /\ Called({"GetFloat"}) =>
         result.ret = Ret(FloatV(IF Node.val THEN Scale ELSE 0), NoErr)

\* GetFloat on true returned 1.0
C8_Witness ==
  /\ Called({"GetFloat"})
  /\ Resolves
  /\ Node = BoolV(TRUE)
  /\ result.ret = Ret(FloatV(Scale), NoErr)

(* ------------------------------- C9 ----------------------------------- *)

\* n is the float f (in units of 1/Scale) truncated toward zero
TruncatedTowardZero(f, n) ==
  IF f >= 0 THEN n * Scale <= f /\ f < (n + 1) * Scale
  ELSE (n - 1) * Scale < f /\ f <= n * Scale

\* C9: GetInt on a found string S returns the integer S denotes when S
\* parses as a base-10 integer; otherwise the parsed float truncated toward
\* zero when S parses as a float; otherwise it fails and returns 0.
C9_IntOfString ==
  (Called({"GetInt"}) /\ Resolves /\ Node.kind = "string") =>
    LET S == Node.val
        r == result.ret
    IN /\ ~r.panic
       /\ r.val.kind = "int"
       /\ IF Atoi(S).ok THEN r.err = NoErr /\ r.val.val = Atoi(S).val
          ELSE IF ParseFloat(S).ok
            THEN r.err = NoErr
                 /\ TruncatedTowardZero(ParseFloat(S).val, r.val.val)
          ELSE r.err # NoErr /\ r.val.val = 0

\* GetInt on "-.9" returned 0: the float -0.9 truncated toward zero
C9_Witness ==
  /\ Called({"GetInt"})
  /\ Resolves
  /\ Node = StrV(<<"-", ".", "9">>)
  /\ result.ret = Ret(IntV(0), NoErr)

(* ------------------------------- C10 ---------------------------------- *)

\* C10: GetBool on a found string returns true exactly for "true" and
\* "yes", false exactly for "false" and "no", and fails with value false
\* for every other string.
C10_BoolOfString ==
  (Called({"GetBool"}) /\ Resolves /\ Node.kind = "string") =>
    LET r == result.ret
    IN /\ ~r.panic
       /\ Node.val \in TrueStrings => r = Ret(BoolV(TRUE), NoErr)
       /\ Node.val \in FalseStrings => r = Ret(BoolV(FALSE), NoErr)
       /\ Node.val \notin TrueStrings \cup FalseStrings
            => r.err # NoErr /\ r.val = BoolV(FALSE)

\* GetBool on "1" failed
C10_Witness ==
  /\ Called({"GetBool"})
  /\ Resolves
  /\ Node = StrV(<<"1">>)
  /\ result.ret.err # NoErr
  /\ result.ret.val = BoolV(FALSE)

(* ------------------------------- C11 ---------------------------------- *)

\* s is fixed-point notation of the float f (in units of 1/Scale) with
\* exactly n fractional digits: digits, a point, n digits, denoting f
FixedPoint(s, f, n) ==
  LET dot == IndexOf(s, ".", 1)
      ip == SubSeq(s, 1, dot - 1)
      fp == SubSeq(s, dot + 1, Len(s))
  IN /\ dot > 1
     /\ Len(fp) = n
     /\ AllDigits(fp)
     /\ AllDigits(IF ip[1] = "-" THEN Tail2(ip) ELSE ip)
     /\ ParseFloat(s) = [ok |-> TRUE, val |-> f]
     /\ \A i \in (FracDigits + 1)..n : fp[i] = "0"

\* s is the decimal digits of the int n, with a minus sign when n < 0
DecimalDigits(s, n) ==
  /\ Len(s) > 0
  /\ s[1] # "+"
  /\ Atoi(s) = [ok |-> TRUE, val |-> n]
  /\ (Len(s) > 1 /\ n >= 0) => s[1] # "0"

\* C11: GetString on a found scalar returns the string itself for a
\* string, "true"/"false" for a boolean, the decimal digits for an int and
\* fixed-point notation with exactly 9 fractional digits for a float, all
\* without error; on a found map or slice it fails and returns "".
C11_GetStringOfScalar ==
  (Called({"GetString"}) /\ Resolves) =>
    LET r == result.ret
    IN /\ ~r.panic
       /\ Node.kind = "string" => r = Ret(Node, NoErr)
       /\ Node.kind = "bool" =>
            r = Ret(StrV(IF Node.val THEN <<"t", "r", "u", "e">>
                                     ELSE <<"f", "a", "l", "s", "e">>), NoErr)
       /\ Node.kind = "int" =>
            /\ r.err = NoErr
            /\ r.val.kind = "string"
            /\ DecimalDigits(r.val.val, Node.val)
       /\ Node.kind = "float64" =>
            /\ r.err = NoErr
            /\ r.val.kind = "string"
            /\ FixedPoint(r.val.val, Node.val, 9)
       /\ Node.kind \in {"map", "slice"} =>
            r.err # NoErr /\ r.val = StrV(<<>>)

\* GetString on the float -1.5 returned "-1.500000000"
C11_Witness ==
  /\ Called({"GetString"})
  /\ Resolves
  /\ Node = FloatV(-(Scale + Scale \div 2))
  /\ result.ret =
       Ret(StrV(<<"-", "1", ".", "5", "0", "0", "0", "0", "0", "0", "0", "0">>),
           NoErr)

(* ------------------------------- C12 ---------------------------------- *)

\* C12: GetMap on a path that resolves to anything other than a map (a
\* scalar or a slice) returns no map and an InvalidTypeError about that
\* value, never an UnsupportedTypeError and never a NotFoundError.
C12_GetMapOfNonMap ==
  (Called({"GetMap"}) /\ Resolves /\ Node.kind # "map")
    => result.ret = Ret(NilV, InvalidTypeError(Node, "map"))

\* GetMap on the slice []int{1, 2} failed with an InvalidTypeError
C12_Witness ==
  /\ Called({"GetMap"})
  /\ Resolves
  /\ Node = SliceV("int", <<IntV(1), IntV(2)>>)
  /\ result.ret.val = NilV
  /\ result.ret.err.type = "InvalidTypeError"

(* ------------------------------- C13 ---------------------------------- *)

\* C13: GetSub on a path that resolves to a map returns a handle whose
\* root is that map; on a path that resolves to a scalar or a slice it
\* returns no handle and an InvalidTypeError, with or without a fallback
\* handle; a handle that is not the caller's own fallback is returned only
\* for a map.
C13_GetSubOnlyOfMap ==
  Called({"GetSub"}) =>
    /\ (Resolves /\ Node.kind = "map")
         => result.ret = Ret(HandleV(Node.val), NoErr)
    /\ (Resolves /\ Node.kind # "map")
         => result.ret = Ret(NilV, InvalidTypeError(Node, "map"))
    /\ (result.ret.val.kind = "handle"
          /\ result.ret.val \notin {result.fallback[i] : i \in DOMAIN result.fallback})
         => (Resolves /\ Node.kind = "map")

\* GetSub with a fallback handle on a found int failed with an
\* InvalidTypeError and returned no handle
C13_Witness ==
  /\ Called({"GetSub"})
  /\ result.fallback # <<>>
  /\ result.fallback[1].kind = "handle"
  /\ Resolves
  /\ Node.kind = "int"
  /\ result.ret = Ret(NilV, InvalidTypeError(Node, "map"))

(* ------------------------------- C14 ---------------------------------- *)

\* the element type of the list a list accessor returns
ElemOf(op) == IF op \in {"GetSubs", "GetSubsV"} THEN "handle" ELSE TargetOf(op)

\* C14: every list accessor on a path that resolves to an empty slice, of
\* whatever element type, returns an empty list of its own element type
\* and no error.
C14_EmptySliceGivesEmptyList ==
  (Called(ListOps) /\ Resolves /\ Node.kind = "slice" /\ Len(Node.val) = 0)
    => result.ret = Ret(SliceV(ElemOf(result.op), <<>>), NoErr)

\* GetStrings on the empty []int returned an empty []string
C14_Witness ==
  /\ Called({"GetStrings"})
  /\ Resolves
  /\ Node = SliceV("int", <<>>)
  /\ result.ret = Ret(SliceV("string", <<>>), NoErr)

(* ------------------------------- C15 ---------------------------------- *)

\* a string that parses neither as an integer nor as a float
Unparsable(v) ==
  v.kind = "string" /\ ~Atoi(v.val).ok /\ ~ParseFloat(v.val).ok

\* C15: GetInts and GetFloats on a path that resolves to a slice holding a
\* string that parses neither as an integer nor as a float fail with an
\* InvalidTypeError and return no list.
C15_UnparsableElementIsInvalidType ==
  (/\ Called({"GetInts", "GetFloats"})
   /\ Resolves
   /\ Node.kind = "slice"
   /\ \E i \in 1..Len(Node.val) : Unparsable(Node.val[i]))
    => (/\ ~result.ret.panic
        /\ result.ret.val = NilV
        /\ result.ret.err.type = "InvalidTypeError")

(* ------------------------------- C16 ---------------------------------- *)

\* C16: GetArray with an element type other than int, float64, string or
\* map, on a path that resolves to a non-empty slice, returns a nil result,
\* found = false and an UnsupportedTypeError that names the element type.
C16_UnsupportedElementType ==
  (/\ Called({"GetArray"})
   /\ result.refType \notin {"int", "float64", "string", "map"}
   /\ Resolves
   /\ Node.kind = "slice"
   /\ Len(Node.val) > 0)
    => result.ret = Ret3(NilV, FALSE, UnsupportedTypeError(result.refType))

\* GetArray of bool on []bool{true, false} returned UnsupportedTypeError
\* "bool"
C16_Witness ==
  /\ Called({"GetArray"})
  /\ result.refType = "bool"
  /\ Resolves
  /\ Node = SliceV("bool", <<BoolV(TRUE), BoolV(FALSE)>>)
  /\ result.ret.err = UnsupportedTypeError("bool")
  /\ ~result.ret.found

(* ------------------------------- C17 ---------------------------------- *)

\* the position of the first element of the slice v that cannot be
\* converted to the target, counted from 0
FirstBad(target, v) ==
  (CHOOSE i \in 1..Len(v.val) :
     /\ ~ConvertibleTo(target, v.val[i])
     /\ \A j \in 1..(i - 1) : ConvertibleTo(target, v.val[j])) - 1

\* C17: when at least one element of the resolved slice cannot be converted
\* to the element type of the list accessor, the call returns no list and
\* an InvalidTypeError that carries the index of the first such element.
C17_FirstBadElementIndexed ==
  (/\ Called(ListOps)
   /\ Resolves
   /\ Node.kind = "slice"
   /\ ~Convertible(result.op, Node))
    => (/\ ~result.ret.panic
        /\ result.ret.val = NilV
        /\ result.ret.err.type = "InvalidTypeError"
        /\ result.ret.err.index = FirstBad(TargetOf(result.op), Node))

\* the part of C17 about elements of the wrong kind in a slice whose
\* elements are not boxed: a map or a slice for GetInts, GetFloats and
\* GetStrings, anything but a map for GetMaps and GetSubs
C17_WrongKindElementIndexed ==
  (/\ Called(ListOps)
   /\ Resolves
   /\ Node.kind = "slice"
   /\ Node.elem # "interface"
   /\ \E i \in 1..Len(Node.val) :
        /\ ~ConvertibleTo(TargetOf(result.op), Node.val[i])
        /\ ~Unparsable(Node.val[i])
   /\ \A i \in 1..Len(Node.val) : ~Unparsable(Node.val[i]))
    => (/\ ~result.ret.panic
        /\ result.ret.val = NilV
        /\ result.ret.err.type = "InvalidTypeError"
        /\ result.ret.err.index = FirstBad(TargetOf(result.op), Node))

(* ------------------------------- C18 ---------------------------------- *)

\* C18: GetSubs on a path that resolves to a slice of n maps returns n
\* handles and no error, and the root of the i-th handle is the i-th map of
\* the slice.
C18_GetSubsWrapsEachMap ==
  (/\ Called({"GetSubs"})
   /\ Resolves
   /\ Node.kind = "slice"
   /\ \A i \in 1..Len(Node.val) : Node.val[i].kind = "map")
    => result.ret =
         Ret(SliceV("handle",
                    [i \in 1..Len(Node.val) |-> HandleV(Node.val[i].val)]),
             NoErr)

\* the part of C18 about a slice of the static type
\* []map[string]interface{}
C18_TypedMapsWrapped ==
  (/\ Called({"GetSubs"})
   /\ Resolves
   /\ Node.kind = "slice"
   /\ Node.elem = "map")
    => result.ret =
         Ret(SliceV("handle",
                    [i \in 1..Len(Node.val) |-> HandleV(Node.val[i].val)]),
             NoErr)

(* ------------------------------- C19 ---------------------------------- *)

\* what the scalar accessor of the target returns for the found value v
ScalarConversion(target, v) ==
  CASE target = "int" -> IntOf(Ret(v, NoErr))
    [] target = "float64" -> FloatOf(Ret(v, NoErr))
    [] target = "string" -> StringOf(Ret(v, NoErr))
    [] target = "map" -> MapOf(Ret(v, NoErr))

\* C19: for a slice of boxed elements ([]interface{}) whose elements can
\* all be converted, GetInts, GetFloats, GetStrings and GetMaps return the
\* list in which every element is converted by its underlying kind as the
\* scalar accessor converts a value of that kind.
C19_BoxedElementsConverted ==
  (/\ Called({"GetInts", "GetFloats", "GetStrings", "GetMaps"})
   /\ Resolves
   /\ Node.kind = "slice"
   /\ Node.elem = "interface"
   /\ Convertible(result.op, Node))
    => result.ret =
         Ret(SliceV(TargetOf(result.op),
                    [i \in 1..Len(Node.val) |->
                       ScalarConversion(TargetOf(result.op), Node.val[i]).val]),
             NoErr)

(* ------------------------------- C20 ---------------------------------- *)

\* what the call recorded in r returns when it is the only call made on
\* the handle this, with the path p
RunAlone(this, p, r) ==
  CASE r.op = "Get" -> Get(this, p, r.fallback)
    [] r.op = "Has" -> Has(this, p)
    [] r.op = "GetBool" -> GetBool(this, p, r.fallback)
    [] r.op = "GetInt" -> GetInt(this, p, r.fallback)
    [] r.op = "GetFloat" -> GetFloat(this, p, r.fallback)
    [] r.op = "GetString" -> GetString(this, p, r.fallback)
    [] r.op = "GetMap" -> GetMap(this, p, r.fallback)
    [] r.op = "GetSub" -> GetSub(this, p, r.fallback)
    [] r.op = "GetArray" -> GetArray(this, r.refType, p)
    [] r.op = "GetInts" -> GetInts(this, p, r.fallback)
    [] r.op = "GetFloats" -> GetFloats(this, p, r.fallback)
    [] r.op = "GetStrings" -> GetStrings(this, p, r.fallback)
    [] r.op = "GetMaps" -> GetMaps(this, p, r.fallback)
    [] r.op = "GetSubs" -> GetSubs(this, p, r.fallback)
    [] r.op = "GetBoolV" -> GetBoolV(this, p, r.fallback)
    [] r.op = "GetIntV" -> GetIntV(this, p, r.fallback)
    [] r.op = "GetFloatV" -> GetFloatV(this, p, r.fallback)
    [] r.op = "GetStringV" -> GetStringV(this, p, r.fallback)
    [] r.op = "GetMapV" -> GetMapV(this, p, r.fallback)
    [] r.op = "GetSubV" -> GetSubV(this, p, r.fallback)
    [] r.op = "GetIntsV" -> GetIntsV(this, p, r.fallback)
    [] r.op = "GetFloatsV" -> GetFloatsV(this, p, r.fallback)
    [] r.op = "GetStringsV" -> GetStringsV(this, p, r.fallback)
    [] r.op = "GetMapsV" -> GetMapsV(this, p, r.fallback)
    [] r.op = "GetSubsV" -> GetSubsV(this, p, r.fallback)

ErrorKinds == {"NotFoundError", "InvalidTypeError", "UnsupportedTypeError"}

\* C21: every error an erroring accessor returns is a NotFoundError, an
\* InvalidTypeError or an UnsupportedTypeError; GetInt, GetFloat and GetBool
\* on a found string that cannot be parsed fail with an InvalidTypeError.
C21_ErrorTaxonomy ==
  Called(Erroring \cup {"GetArray"}) =>
    /\ ~result.ret.panic
    /\ result.ret.err # NoErr => result.ret.err.type \in ErrorKinds
    /\ (/\ Called({"GetInt", "GetFloat", "GetBool"})
        /\ Resolves
        /\ Node.kind = "string"
        /\ ~ConvertibleTo(TargetOf(result.op), Node))
         => result.ret.err.type = "InvalidTypeError"

\* the part of C21 about every failure but that of parsing a string
C21_ErrorTaxonomyButParsing ==
  (/\ Called(Erroring \cup {"GetArray"})
   /\ ~(Resolves /\ Node.kind = "string"))
    => /\ ~result.ret.panic
       /\ result.ret.err # NoErr => result.ret.err.type \in ErrorKinds

(* ------------------------------- C22 ---------------------------------- *)

\* C22: the InvalidTypeError of a scalar accessor holds the value found and
\* names the target of the accessor called: "int" for GetInt, "float64" for
\* GetFloat, "string" for GetString, "bool" for GetBool, "map" for GetMap
\* and GetSub.
C22_InvalidTypeNamesTarget ==
  (/\ Called(ScalarOps)
   /\ ~result.ret.panic
   /\ result.ret.err.type = "InvalidTypeError")
    => result.ret.err = InvalidTypeError(Node, TargetOf(result.op))

\* the part of C22 about every scalar accessor but GetString
C22_InvalidTypeNamesTargetButString ==
  (/\ Called(ScalarOps \ {"GetString"})
   /\ ~result.ret.panic
   /\ result.ret.err.type = "InvalidTypeError")
    => (Resolves /\ result.ret.err = InvalidTypeError(Node, TargetOf(result.op)))

(* ------------------------------- C23 ---------------------------------- *)

\* the zero value of what an erroring accessor returns
ZeroOfErroring(op) ==
  CASE op = "GetBool" -> BoolV(FALSE)
    [] op = "GetInt" -> IntV(0)
    [] op = "GetFloat" -> FloatV(0)
    [] op = "GetString" -> StrV(<<>>)
    [] OTHER -> NilV

\* C23: whenever an erroring accessor returns an error, the value next to
\* it is the zero value of its return type, with or without a fallback.
C23_ZeroValueWithError ==
  (Called(Erroring) /\ ~result.ret.panic /\ result.ret.err # NoErr)
    => result.ret.val = ZeroOfErroring(result.op)

\* GetInt with fallback 7 on the found string "x" returned 0 and an error
C23_Witness ==
  /\ Called({"GetInt"})
  /\ result.fallback = <<IntV(7)>>
  /\ Resolves
  /\ Node = StrV(<<"x">>)
  /\ result.ret.err # NoErr
  /\ result.ret.val = IntV(0)

(* ------------------------------- C24 ---------------------------------- *)

\* C24: FromJson and FromJsonFile return a handle on the decoded object and
\* no error when the input can be read and decodes to a JSON object at the
\* top level; in every other case (no such file, no valid JSON, valid JSON
\* whose top level is an array, a scalar or null) they return no handle and
\* an error.  A text they accept starts and ends with a brace.
C24_FromJsonOnlyOfObject ==
  Called({"FromJson", "FromJsonFile"}) =>
    LET readable == result.op = "FromJson" \/ result.file \in DOMAIN disk
        text == IF result.op = "FromJson" THEN result.in ELSE disk[result.file]
        r == result.ret
    IN /\ ~r.panic
       /\ IF readable /\ Unmarshal(text).err = NoErr
               /\ Unmarshal(text).val.kind = "map"
            THEN r = Ret(HandleV(Unmarshal(text).val.val), NoErr)
            ELSE r.val = NilV /\ r.err # NoErr
       /\ r.err = NoErr =>
            /\ r.val.kind = "handle"
            /\ Len(text) >= 2
            /\ text[1] = "{"
            /\ text[Len(text)] = "}"

\* FromJsonFile on a file holding null returned no handle and an error
C24_Witness ==
  /\ Called({"FromJsonFile"})
  /\ path \in DOMAIN disk
  /\ disk[path] = <<"n", "u", "l", "l">>
  /\ result.ret.val = NilV
  /\ result.ret.err # NoErr

(* ------------------------------- C25 ---------------------------------- *)

\* the string representation of a map key: the digits of an int, true or
\* false for a bool, the string itself
KeyString(k) ==
  CASE k.kind = "string" -> k.val
    [] k.kind = "int" -> Itoa(k.val)
    [] k.kind = "bool" -> IF k.val THEN <<"t", "r", "u", "e">>
                          ELSE <<"f", "a", "l", "s", "e">>

\* the entries of a map node under the string representations of its keys
Entries(node) ==
  IF node.keys = "string" THEN node.val
  ELSE [x \in {KeyString(node.val[i][1]) : i \in DOMAIN node.val} |->
          LET i == CHOOSE i \in DOMAIN node.val : KeyString(node.val[i][1]) = x
          IN node.val[i][2]]

RECURSIVE WalkAny(_, _)
\* following segs from node as Walk does, a map of any key type being
\* entered by the string representation of its keys
WalkAny(node, segs) ==
  IF segs = <<>> THEN [ok |-> TRUE, node |-> node]
  ELSE IF node.kind = "map" /\ segs[1] \in DOMAIN Entries(node)
    THEN WalkAny(Entries(node)[segs[1]], Tail2(segs))
  ELSE IF node.kind = "slice" /\ IsIndex(segs[1], Len(node.val))
    THEN WalkAny(node.val[Atoi(segs[1]).val + 1], Tail2(segs))
  ELSE [ok |-> FALSE, node |-> NilV]

C25_StringKeysOfAnyMap ==
  LET w == WalkAny(MapV(root.val), Split(path))
      stringKeys(n) ==
        n.keys = "string" \/ \A i \in DOMAIN n.val : n.val[i][1].kind = "string"
  IN (/\ Called({"Get", "GetMap"})
      /\ path \in {<<"s">>, <<"s", "/", "a">>}
      /\ w.ok
      /\ w.node.kind = "map"
      /\ stringKeys(w.node))
       => result.ret =
            Ret(IF Called({"Get"}) THEN w.node ELSE MapV(Entries(w.node)), NoErr)

(* ------------------------------- C29 ---------------------------------- *)

\* C29: on every Document, also one with null values, empty maps and empty
\* slices at a leaf or in the middle of the path, every accessor completes
\* by returning a value or an error: no call ends in a run-time fault.
C29_NoRuntimeFault ==
  result # NoCall => ~result.ret.panic

\* the part of C29 about Documents without null values and without maps
\* that have keys other than strings
C29_NoRuntimeFaultOnSpecDocuments ==
  (result # NoCall /\ disk = NoFiles /\ calls <= 1) => ~result.ret.panic

(* ------------------------------- C26 ---------------------------------- *)

\* the path of this state has an empty segment: it is empty, or it has a
\* leading, a trailing or a doubled "/"
HasEmptySegment == \E i \in DOMAIN Split(path) : Split(path)[i] = <<>>

RECURSIVE HasEmptyKey(_)
\* some map of the tree below node has the empty string as a key
HasEmptyKey(node) ==
  CASE node.kind = "map" ->
         \/ <<>> \in DOMAIN node.val
         \/ \E k \in DOMAIN node.val : HasEmptyKey(node.val[k])
    [] node.kind = "slice" ->
         \E i \in DOMAIN node.val : HasEmptyKey(node.val[i])
    [] OTHER -> FALSE

\* what Get and Has hand back for a path they do not find
ReportsNotFound ==
  IF Called({"Has"}) THEN result.ret = Ret(BoolV(FALSE), NoErr)
  ELSE IF Len(result.fallback) > 0
    THEN result.ret = Ret(result.fallback[1], NoErr)
  ELSE result.ret = Ret(NilV, NotFoundError(path))

\* what Get and Has hand back for a path they find
ReportsFound ==
  IF Called({"Has"}) THEN result.ret = Ret(BoolV(TRUE), NoErr)
  ELSE result.ret = Ret(Node, NoErr)

PrefixPath(n) == Join(SubSeq(Split(path), 1, n))
SuffixPath(n) == Join(SubSeq(Split(path), n + 1, Len(Split(path))))

\* the outcome r with the path p in place of the one its NotFoundError names
Renamed(r, p) ==
  IF ~r.panic /\ r.err.type = "NotFoundError"
    THEN [r EXCEPT !.err = NotFoundError(p)]
    ELSE r

\* what the call of this state returns when it is made with the path q on
\* the handle that GetSub returns for the path p
OnSub(sub, q) == RunAlone(sub.val, q, result)

\* C27: for every P that GetSub resolves to a map and every Q, the accessor
\* called with Q on the handle GetSub(P) returns what the same accessor
\* called with P + "/" + Q returns on the parent handle: the same value,
\* the same error, and for a path not found a NotFoundError that names Q on
\* the sub handle and P + "/" + Q on the parent.
C27_GetSubComposes ==
  result # NoCall =>
    \A n \in 1..(Len(Split(path)) - 1) :
      LET sub == GetSub(root, PrefixPath(n), <<>>)
      IN Succeeded(sub) =>
           /\ Renamed(OnSub(sub, SuffixPath(n)), path) = result.ret
           /\ result.ret.err.type = "NotFoundError" =>
                OnSub(sub, SuffixPath(n)).err = NotFoundError(SuffixPath(n))

\* GetInt has converted the value at b/b/b, which GetSub("b") followed by
\* GetInt("b/b") and GetSub("b/b") followed by GetInt("b") reach as well
C27_Witness ==
  /\ Called({"GetInt"})
  /\ path = <<"b", "/", "b", "/", "b">>
  /\ Succeeded(GetSub(root, <<"b">>, <<>>))
  /\ Succeeded(GetSub(root, <<"b", "/", "b">>, <<>>))
  /\ result.ret = Ret(IntV(1), NoErr)

(* ------------------------------- C28 ---------------------------------- *)

\* Get or Has has found the path of this state
FoundPath ==
  \/ Called({"Has"}) /\ result.ret = Ret(BoolV(TRUE), NoErr)
  \/ Called({"Get"}) /\ result.fallback = <<>> /\ Succeeded(result.ret)

\* C28: when a path is found, every non-empty proper prefix of its segments,
\* joined by "/", is found as well (Has is true, Get succeeds), and what Get
\* returns for the prefix is a map or a slice, never a scalar.
C28_PrefixClosed ==
  FoundPath =>
    \A n \in 1..(Len(Split(path)) - 1) :
      /\ Has(root, PrefixPath(n)) = Ret(BoolV(TRUE), NoErr)
      /\ Succeeded(Get(root, PrefixPath(n), <<>>))
      /\ Get(root, PrefixPath(n), <<>>).val.kind \in {"map", "slice"}

\* Has has found a path of three segments that goes through a slice and a
\* map
C28_Witness ==
  /\ Called({"Has"})
  /\ path = <<"a", "/", "0", "/", "b">>
  /\ result.ret = Ret(BoolV(TRUE), NoErr)
  /\ Get(root, <<"a">>, <<>>).val.kind = "slice"
  /\ Get(root, <<"a", "/", "0">>, <<>>).val.kind = "map"

(* ------------------------------- C30 ---------------------------------- *)

\* GetArray has returned the outcome of converting the elements of Node:
\* a slice of as many elements and no error, or the InvalidTypeError of one
\* element
ElementsConverted ==
  \/ /\ result.ret.found
     /\ result.ret.err = NoErr
     /\ result.ret.val.kind = "slice"
     /\ Len(result.ret.val.val) = Len(Node.val)
  \/ /\ ~result.ret.found
     /\ result.ret.val = NilV
     /\ result.ret.err.type = "InvalidTypeError"
     /\ "index" \in DOMAIN result.ret.err
     /\ result.ret.err.of = result.refType

\* C30: GetArray decides its outcome by checks in a fixed order.  A path
\* that does not resolve gives NotFoundError; else a value that is not a
\* slice gives InvalidTypeError "array", whatever the element type asked
\* for; else an empty slice gives no result and no error, whatever the
\* element type asked for; else an element type that is not supported
\* gives UnsupportedTypeError; only then are the elements converted.
C30_GetArrayCheckOrder ==
  Called({"GetArray"}) =>
    /\ ~result.ret.panic
    /\ IF ~Resolves
         THEN result.ret = Ret3(NilV, FALSE, NotFoundError(path))
       ELSE IF Node.kind # "slice"
         THEN result.ret = Ret3(NilV, FALSE, InvalidTypeError(Node, "array"))
       ELSE IF Len(Node.val) = 0
         THEN result.ret = Ret3(NilV, FALSE, NoErr)
       ELSE IF result.refType \notin {"int", "float64", "string", "map"}
         THEN result.ret =
                Ret3(NilV, FALSE, UnsupportedTypeError(result.refType))
       ELSE ElementsConverted

\* GetArray of bool, which is not supported, on an empty slice returned no
\* result and no error
C30_Witness ==
  /\ Called({"GetArray"})
  /\ result.refType = "bool"
  /\ Resolves
  /\ Node.kind = "slice"
  /\ Len(Node.val) = 0
  /\ result.ret = Ret3(NilV, FALSE, NoErr)

====
